---- MODULE Spec2Model ----
(***************************************************************************)
(* Plugin marketplace: acquisition (helpers/git_ops.py), removal,          *)
(* enable/disable sentinels (api/marketplace_toggle.py) and the            *)
(* registry/local-state merge (api/marketplace_registry.py).               *)
(*                                                                         *)
(* The file system below usr/plugins is a function from directory names    *)
(* to directories.  git, the network and the clock are the environment:    *)
(* every outcome they can produce is a nondeterministic input (env).       *)
(***************************************************************************)
EXTENDS Integers, Sequences, FiniteSets, TLC

(***************************************************************************)
(* Bounds of the model.                                                    *)
(***************************************************************************)
MaxUrlLen == 6
MaxCatalog == 2

(***************************************************************************)
(* Names.                                                                  *)
(***************************************************************************)
\* Identifiers callers ask for.  One of them is the staging name of another.
Ids == {"a", "a_tmp_clone", "b"}
\* Identifiers that also exist as shipped plugins under plugins/<id>.
BuiltinIds == {"b"}

\* git_ops.py:86  tmp_dir = target_dir + "_tmp_clone"
TmpDirOf(target_dir) == target_dir \o "_tmp_clone"

\* Every directory name below usr/plugins the operations can touch.
Names == Ids \cup {TmpDirOf(i) : i \in Ids}

MANIFEST_YAML == "plugin.yaml"
MANIFEST_JSON == "plugin.json"
GIT_DIR == ".git"
ENABLED_FILE_NAME == "ENABLED_FILE_NAME"
DISABLED_FILE_NAME == "DISABLED_FILE_NAME"

(***************************************************************************)
(* Directories.  A directory holds plain entries (files) and at most one   *)
(* nested directory (sub): the requested plugin_path inside a staging      *)
(* clone, or a directory that shutil.move put inside an existing target.   *)
(***************************************************************************)
NoSub == [ex |-> FALSE, files |-> {}]
NoDir == [ex |-> FALSE, files |-> {}, sub |-> NoSub]
Dir(files) == [ex |-> TRUE, files |-> files, sub |-> NoSub]

EmptyFs == [n \in Names |-> NoDir]

\* os.path.exists(dir)
PathExists(fs, n) == fs[n].ex
\* os.path.exists(os.path.join(dir, file))
FileExists(fs, n, f) == fs[n].ex /\ f \in fs[n].files
\* shutil.rmtree(dir, ignore_errors=True)
Rmtree(fs, n) == [fs EXCEPT ![n] = NoDir]
\* os.remove(os.path.join(dir, file))
RemoveFile(fs, n, f) == [fs EXCEPT ![n].files = @ \ {f}]
\* open(os.path.join(dir, file), "w")
WriteFile(fs, n, f) == [fs EXCEPT ![n].files = @ \cup {f}]
\* os.makedirs(dir, exist_ok=True)
Makedirs(fs, n) == IF fs[n].ex THEN fs ELSE [fs EXCEPT ![n] = Dir({})]

(***************************************************************************)
(* URLs are sequences of characters.  The path segments "tree" and "blob"  *)
(* are one character long here ("t", "b"), so the markers "/tree/" and     *)
(* "/blob/" keep their shape: a segment between two slashes, and two       *)
(* markers can share a slash.                                              *)
(***************************************************************************)
UrlChars == {"/", "t", "b"}
TREE_MARKER == <<"/", "t", "/">>
BLOB_MARKER == <<"/", "b", "/">>
MARKERS == <<TREE_MARKER, BLOB_MARKER>>

Urls == UNION {[1..n -> UrlChars] : n \in 0..MaxUrlLen}

\* Whether marker m occurs in url at (1-based) position i.
OccursAt(url, m, i) ==
    /\ i >= 1
    /\ i + Len(m) - 1 <= Len(url)
    /\ \A k \in 1..Len(m) : url[i + k - 1] = m[k]

\* str.find(marker): the 0-based index of the first occurrence, or -1.
Find(url, m) ==
    LET hits == {i \in 1..Len(url) : OccursAt(url, m, i)}
    IN  IF hits = {} THEN -1
        ELSE (CHOOSE i \in hits : \A j \in hits : i <= j) - 1

\* url[:idx]
Prefix(url, idx) == SubSeq(url, 1, idx)

RECURSIVE CleanFrom(_, _)
\* The loop of _clean_github_url from marker k on.
CleanFrom(url, k) ==
    IF k > Len(MARKERS) THEN url
    ELSE LET idx == Find(url, MARKERS[k])
         IN  IF idx # -1 THEN Prefix(url, idx) ELSE CleanFrom(url, k + 1)

\* git_ops.py:47  _clean_github_url
_clean_github_url(url) == CleanFrom(url, 1)

(***************************************************************************)
(* git_ops.py: acquisition.                                                *)
(*                                                                         *)
(* A helper returns [fs, ok, error, diag, raised, ops]: the file system it *)
(* leaves, the returned dict ({"ok": ..., "error": ...}; diag is the text  *)
(* the error carries), whether it raised instead of returning, and the     *)
(* external commands it ran, in order.                                     *)
(***************************************************************************)
NoDiag == [kind |-> "", cmd |-> "", branch |-> ""]
\* result.stderr of a command that exited non-zero
Stderr(cmd, branch) == [kind |-> "stderr", cmd |-> cmd, branch |-> branch]
\* str(e) of the exception a command raised
ExcText(kind, cmd, branch) == [kind |-> kind, cmd |-> cmd, branch |-> branch]

\* One external command or marker operation: what ran, the URL it was given,
\* its argument (a branch, a directory, a marker) and how it ended.
OpOut(cmd, url, arg, out) == [cmd |-> cmd, url |-> url, arg |-> arg, out |-> out]
Op(cmd, url, arg) == OpOut(cmd, url, arg, "")

Return(fs, ok, error, diag, ops) ==
    [fs |-> fs, ok |-> ok, error |-> error, diag |-> diag, raised |-> FALSE, ops |-> ops]
Raise(fs, diag, ops) ==
    [fs |-> fs, ok |-> FALSE, error |-> "exception", diag |-> diag, raised |-> TRUE, ops |-> ops]

ERR_ALREADY_INSTALLED == "is already installed."
ERR_CLONE_FAILED == "git clone failed"
ERR_NO_MANIFEST_ROOT == "Cloned repo has no plugin.yaml at root."
ERR_PULL_FAILED == "git pull failed"
ERR_PATH_NOT_FOUND == "not found in repo."
ERR_NO_MANIFEST_PATH == "Plugin path has no plugin.yaml."

\* What git and the file system can answer.
\*   clone  : "ok" | "fail" (exit code # 0) | "timeout" (TimeoutExpired after
\*            120 s, git killed) | "raise" (git could not be started)
\*   left   : a command that did not succeed leaves the directory it was
\*            creating behind (git killed mid-way; "Clone succeeded, but
\*            checkout failed"; a move that failed half-way)
\*   repo   : the files at the root of the cloned repository
\*   setup  : "ok", or the administrative step that raises: "init" | "remote" | "config"
\*   pull   : per branch, "ok" | "fail" | "timeout"
\*   subdir : the requested plugin_path inside the pulled tree
\*   move   : "ok" | "raise"
\*   post   : the telemetry request, "ok" | "raise"
PullOutcomes == {"ok", "fail", "timeout"}
Branches == {"main", "master", "dev"}

\* git_ops.py:75-77 / 133-135  has_yaml or has_json
HasManifest(fs, n) ==
    LET has_yaml == FileExists(fs, n, MANIFEST_YAML)
        has_json == FileExists(fs, n, MANIFEST_JSON)
    IN  ~(~has_yaml /\ ~has_json)

\* Fault variant: a failed validation returns its error and leaves the tree.
ValidateNoCleanup(fs, target_dir, error, ops) ==
    IF ~HasManifest(fs, target_dir)
    THEN Return(fs, FALSE, error, NoDiag, ops)
    ELSE Return(fs, TRUE, "", NoDiag, ops)

\* git_ops.py:74-81 / 132-139  validate the manifest, remove the tree without one
Validate(fs, target_dir, error, ops) ==
    IF ~HasManifest(fs, target_dir)
    THEN Return(Rmtree(fs, target_dir), FALSE, error, NoDiag, ops)
    ELSE Return(fs, TRUE, "", NoDiag, ops)

\* git clone --depth 1 [--branch b] url target, as run by subprocess.run:
\* the file system the command leaves.
GitClone(fs, target_dir, env) ==
    CASE env.clone = "ok" -> [fs EXCEPT ![target_dir] = Dir(env.repo \cup {GIT_DIR})]
      [] env.left -> [fs EXCEPT ![target_dir] = Dir({GIT_DIR})]
      [] OTHER -> fs

\* git_ops.py:56  _full_clone
_full_clone(fs, repo_url, target_dir, branch, env) ==
    LET ops == <<OpOut("clone", repo_url, branch, env.clone)>>
        fs1 == GitClone(fs, target_dir, env)
    IN  CASE env.clone \in {"timeout", "raise"} ->
               Raise(fs1, ExcText(env.clone, "clone", branch), ops)
          [] env.clone = "fail" ->
               Return(fs1, FALSE, ERR_CLONE_FAILED, Stderr("clone", branch), ops)
          [] OTHER ->
               LET fs2 == IF FileExists(fs1, target_dir, GIT_DIR)
                          THEN RemoveFile(fs1, target_dir, GIT_DIR)
                          ELSE fs1
               IN  Validate(fs2, target_dir, ERR_NO_MANIFEST_ROOT, ops)

\* git_ops.py:106-109  branches_to_try
BranchesToTry(branch) == IF branch # "" THEN <<branch>> ELSE <<"main", "master">>

\* The state of the pull loop: the last pull_result (None before the first
\* attempt), whether an attempt raised TimeoutExpired, the attempts made.
NoPull == [none |-> TRUE, returncode |-> 1, branch |-> "", timeout |-> FALSE, tried |-> <<>>]

RECURSIVE PullLoop(_, _, _, _)
\* git_ops.py:113-119  for try_branch in branches_to_try
PullLoop(branches, i, env, st) ==
    IF i > Len(branches) THEN st
    ELSE LET b == branches[i]
             tried == Append(st.tried, [branch |-> b, out |-> env.pull[b]])
         IN  CASE env.pull[b] = "timeout" ->
                    [st EXCEPT !.timeout = TRUE, !.branch = b, !.tried = tried]
               [] env.pull[b] = "ok" ->
                    [none |-> FALSE, returncode |-> 0, branch |-> b,
                     timeout |-> FALSE, tried |-> tried]
               [] OTHER ->
                    PullLoop(branches, i + 1, env,
                             [none |-> FALSE, returncode |-> 1, branch |-> b,
                              timeout |-> FALSE, tried |-> tried])

PullOps(tried) == [k \in 1..Len(tried) |-> OpOut("pull", <<>>, tried[k].branch, tried[k].out)]

\* shutil.move(src, target_dir) where src is the sub-directory of tmp_dir:
\* a rename when the target is absent, a move INTO the target when it is a
\* directory.
Move(fs, tmp_dir, target_dir) ==
    LET src == fs[tmp_dir].sub
    IN  IF ~fs[target_dir].ex
        THEN [fs EXCEPT ![target_dir] = Dir(src.files), ![tmp_dir].sub = NoSub]
        ELSE [fs EXCEPT ![target_dir].sub = src, ![tmp_dir].sub = NoSub]

\* git_ops.py:88-139  the try block of _sparse_clone
SparseBody(fs, repo_url, plugin_path, target_dir, tmp_dir, branch, env) ==
    LET init == Op("init", <<>>, tmp_dir)
        remote == Op("remote add", repo_url, tmp_dir)
        config == Op("config", <<>>, tmp_dir)
        \* git init creates the directory, or reuses one that is there
        fs1 == [fs EXCEPT ![tmp_dir] =
                   [ex |-> TRUE, files |-> @.files \cup {GIT_DIR}, sub |-> @.sub]]
        fs0 == IF env.left THEN fs1 ELSE fs
    IN  CASE env.setup = "init" ->
               Raise(fs0, ExcText("CalledProcessError", "init", ""), <<init>>)
          [] env.setup = "remote" ->
               Raise(fs1, ExcText("CalledProcessError", "remote add", ""), <<init, remote>>)
          [] env.setup = "config" ->
               Raise(fs1, ExcText("CalledProcessError", "config", ""),
                     <<init, remote, config>>)
          [] OTHER ->
               LET st == PullLoop(BranchesToTry(branch), 1, env, NoPull)
                   ops == <<init, remote, config>> \o PullOps(st.tried)
               IN  CASE st.timeout ->
                          Raise(fs1, ExcText("timeout", "pull", st.branch), ops)
                     [] st.none \/ st.returncode # 0 ->
                          Return(fs1, FALSE, ERR_PULL_FAILED,
                                 IF st.none THEN ExcText("No branches to try", "", "")
                                 ELSE Stderr("pull", st.branch), ops)
                     [] OTHER ->
                          LET fs2 == [fs1 EXCEPT ![tmp_dir].sub = env.subdir]
                              mv == Op("move", <<>>, target_dir)
                          IN  CASE ~fs2[tmp_dir].sub.ex ->
                                     Return(fs2, FALSE, ERR_PATH_NOT_FOUND, NoDiag, ops)
                                [] env.move = "raise" \/ (fs2[target_dir].ex /\ fs2[target_dir].sub.ex) ->
                                     Raise(IF env.left THEN Move(fs2, tmp_dir, target_dir) ELSE fs2,
                                           ExcText("shutil.Error", "move", ""),
                                           Append(ops, mv))
                                [] OTHER ->
                                     Validate(Move(fs2, tmp_dir, target_dir), target_dir,
                                              ERR_NO_MANIFEST_PATH, Append(ops, mv))

\* Fault variant: the staging directory is removed only when the pull succeeded.
SparseFinallyOnSuccess(r, tmp_dir) ==
    IF r.ok /\ PathExists(r.fs, tmp_dir) THEN [r EXCEPT !.fs = Rmtree(r.fs, tmp_dir)] ELSE r

\* git_ops.py:141-143  finally: remove tmp_dir when it exists
SparseFinally(r, tmp_dir) ==
    IF PathExists(r.fs, tmp_dir) THEN [r EXCEPT !.fs = Rmtree(r.fs, tmp_dir)] ELSE r

\* git_ops.py:84  _sparse_clone
_sparse_clone(fs, repo_url, plugin_path, plugin_id, target_dir, branch, env) ==
    LET tmp_dir == TmpDirOf(target_dir)
    IN  SparseFinally(
            SparseBody(fs, repo_url, plugin_path, target_dir, tmp_dir, branch, env),
            tmp_dir)

\* git_ops.py:33  is_subdirectory = plugin_path and plugin_path != "."
IsSubdirectory(plugin_path) == plugin_path # "" /\ plugin_path # "."

\* git_ops.py:40-44  except Exception: remove target_dir, return str(e)
Catch(r, target_dir) ==
    IF r.raised
    THEN Return(IF PathExists(r.fs, target_dir) THEN Rmtree(r.fs, target_dir) ELSE r.fs,
                FALSE, "exception", r.diag, r.ops)
    ELSE r

\* Fault variant: an existing target is overwritten instead of rejected.
AlreadyInstalledNever(fs, target_dir) == FALSE

\* git_ops.py:24  os.path.exists(target_dir)
AlreadyInstalled(fs, target_dir) == PathExists(fs, target_dir)

\* git_ops.py:27-44  clone_plugin after the installed check
Acquire(fs, repo_url, plugin_path, plugin_id, branch, env) ==
    LET target_dir == plugin_id
        url == _clean_github_url(repo_url)
    IN  Catch(IF IsSubdirectory(plugin_path)
              THEN _sparse_clone(fs, url, plugin_path, plugin_id, target_dir, branch, env)
              ELSE _full_clone(fs, url, target_dir, branch, env),
              target_dir)

\* git_ops.py:12  clone_plugin
clone_plugin(fs, repo_url, plugin_path, plugin_id, branch, env) ==
    LET target_dir == plugin_id
    IN  IF AlreadyInstalled(fs, target_dir)
        THEN Return(fs, FALSE, ERR_ALREADY_INSTALLED, NoDiag, <<>>)
        ELSE Acquire(fs, repo_url, plugin_path, plugin_id, branch, env)

ERR_BUILTIN == "Cannot uninstall built-in plugins."
ERR_NOT_INSTALLED == "is not installed in usr/plugins/."

(***************************************************************************)
(* Paths.  A path is the sequence of its segments from the root.  The      *)
(* directories below usr/plugins are the function fs; every other          *)
(* directory that exists is a member of the set hs.  The framework runs    *)
(* from BASE_DIR, and usr/plugins exists.                                  *)
(***************************************************************************)
\* files.get_abs_path(): the directory the framework is installed in
BASE_DIR == <<"a0">>
\* git_ops.py:9
USR_PLUGINS_DIR == BASE_DIR \o <<"usr", "plugins">>
\* git_ops.py:151  files.get_abs_path("plugins", ...)
BUILTIN_PLUGINS_DIR == BASE_DIR \o <<"plugins">>

\* The directories outside usr/plugins/<name> that exist at the start.
HostDirs ==
    {BASE_DIR, BASE_DIR \o <<"usr">>, USR_PLUGINS_DIR, BUILTIN_PLUGINS_DIR}
    \cup {BUILTIN_PLUGINS_DIR \o <<b>> : b \in BuiltinIds}

\* Identifiers with separators: relative ones that climb out of
\* usr/plugins, one that climbs past the root, and an absolute one.
TraversalIds == {"../../plugins/b", "../../../plugins/b", "/a0/plugins/b"}
UninstallIds == Ids \cup TraversalIds

\* os.path.isabs(plugin_id)
IsAbs(plugin_id) == plugin_id = "/a0/plugins/b"
\* plugin_id split at "/"
Segments(plugin_id) ==
    CASE plugin_id = "../../plugins/b" -> <<"..", "..", "plugins", "b">>
      [] plugin_id = "../../../plugins/b" -> <<"..", "..", "..", "plugins", "b">>
      [] plugin_id = "/a0/plugins/b" -> <<"a0", "plugins", "b">>
      [] OTHER -> <<plugin_id>>

\* os.path.join(dir, plugin_id): an absolute plugin_id replaces dir
Join(dir, plugin_id) ==
    IF IsAbs(plugin_id) THEN Segments(plugin_id) ELSE dir \o Segments(plugin_id)

\* os.path.abspath(path): "." is dropped, ".." drops the segment before it
\* and is itself dropped at the root
RECURSIVE Normalize(_, _)
Normalize(done, rest) ==
    IF rest = <<>> THEN done
    ELSE LET h == Head(rest)
         IN  Normalize(CASE h = ".." -> IF done = <<>> THEN <<>>
                                        ELSE SubSeq(done, 1, Len(done) - 1)
                         [] h = "." -> done
                         [] OTHER -> Append(done, h),
                       Tail(rest))
Abspath(path) == Normalize(<<>>, path)

IsPrefix(p, q) == Len(p) <= Len(q) /\ SubSeq(q, 1, Len(p)) = p
\* The path names a directory directly below usr/plugins.
UnderUsr(path) ==
    /\ Len(path) = Len(USR_PLUGINS_DIR) + 1
    /\ IsPrefix(USR_PLUGINS_DIR, path)
    /\ path[Len(path)] \in Names
\* os.path.exists(path): the system resolves ".." through directories that
\* exist, so the answer is that of the resolved path
PathExistsAt(fs, hs, path) ==
    IF UnderUsr(path) THEN PathExists(fs, path[Len(path)]) ELSE path \in hs
\* shutil.rmtree(path): the directory and everything below it
RmtreeFs(fs, path) ==
    CASE UnderUsr(path) -> Rmtree(fs, path[Len(path)])
      [] IsPrefix(path, USR_PLUGINS_DIR) -> EmptyFs
      [] OTHER -> fs
RmtreeHost(hs, path) == {q \in hs : ~IsPrefix(path, q)}

\* git_ops.py:148  target_dir = os.path.join(USR_PLUGINS_DIR, plugin_id)
UsrPluginPath(plugin_id) == Join(USR_PLUGINS_DIR, plugin_id)
\* git_ops.py:151  builtin_dir = files.get_abs_path("plugins", plugin_id)
BuiltinPluginPath(plugin_id) == Join(BUILTIN_PLUGINS_DIR, plugin_id)

Removed(fs, hs, ok, error, ops) ==
    [fs |-> fs, host |-> hs, ok |-> ok, error |-> error, ops |-> ops]

\* Fault variant: no built-in guard.
RemoveUnguarded(fs, hs, plugin_id) ==
    LET target_dir == Abspath(UsrPluginPath(plugin_id))
    IN  IF ~PathExistsAt(fs, hs, target_dir)
        THEN Removed(fs, hs, FALSE, ERR_NOT_INSTALLED, <<>>)
        ELSE Removed(RmtreeFs(fs, target_dir), RmtreeHost(hs, target_dir), TRUE, "",
                     <<Op("rmtree", <<>>, plugin_id)>>)

\* git_ops.py:146  remove_plugin
remove_plugin(fs, hs, plugin_id) ==
    LET target_dir == Abspath(UsrPluginPath(plugin_id))
        builtin_dir == Abspath(BuiltinPluginPath(plugin_id))
    IN  CASE target_dir = builtin_dir ->
               Removed(fs, hs, FALSE, ERR_BUILTIN, <<>>)
          [] ~PathExistsAt(fs, hs, target_dir) ->
               Removed(fs, hs, FALSE, ERR_NOT_INSTALLED, <<>>)
          [] OTHER ->
               Removed(RmtreeFs(fs, target_dir), RmtreeHost(hs, target_dir), TRUE, "",
                       <<Op("rmtree", <<>>, plugin_id)>>)

(***************************************************************************)
(* Local plugin discovery (python.helpers.plugins, the host framework):    *)
(* a plugin is found when usr/plugins/<id> holds a manifest or when it is  *)
(* shipped under plugins/<id>.                                             *)
(***************************************************************************)
\* marketplace_toggle.py:16  plugins.find_plugin_dir(plugin_id)
find_plugin_dir(fs, plugin_id) == plugin_id \in BuiltinIds \/ HasManifest(fs, plugin_id)

\* PluginListItem.is_custom: the plugin found is the one under usr/plugins
is_custom(fs, plugin_id) == HasManifest(fs, plugin_id)

RECURSIVE SelectLocal(_, _, _)
SelectLocal(fs, order, i) ==
    IF i > Len(order) THEN <<>>
    ELSE (IF find_plugin_dir(fs, order[i]) THEN <<order[i]>> ELSE <<>>)
         \o SelectLocal(fs, order, i + 1)

\* marketplace_registry.py:48  plugins.get_enhanced_plugins_list(custom=True,
\* builtin=True): the discovered plugins, in the order the framework
\* enumerates the identifiers.
get_enhanced_plugins_list(fs, order) == SelectLocal(fs, order, 1)

\* The orders in which the framework can enumerate the identifiers.
Orders == {o \in [1..Cardinality(Ids) -> Ids] : \A i \in Ids : \E k \in DOMAIN o : o[k] = i}

(***************************************************************************)
(* marketplace_toggle.py                                                   *)
(***************************************************************************)
\* Fault variant: the own marker is written, the opposing one is left in place.
ToggleKeepOpposing(fs, plugin_id, enabled) ==
    LET fs1 == Makedirs(fs, plugin_id)
        own == IF enabled THEN ENABLED_FILE_NAME ELSE DISABLED_FILE_NAME
    IN  Return(WriteFile(fs1, plugin_id, own), TRUE, "", NoDiag,
               <<Op("makedirs", <<>>, plugin_id), Op("write", <<>>, own)>>)

\* marketplace_toggle.py:20-35  the markers of usr/plugins/<plugin_id>
ToggleMarkers(fs, plugin_id, enabled) ==
    LET usr_plugin_dir == plugin_id
        fs1 == Makedirs(fs, usr_plugin_dir)
        mk == <<Op("makedirs", <<>>, usr_plugin_dir)>>
    IN  IF enabled
        THEN IF FileExists(fs1, usr_plugin_dir, DISABLED_FILE_NAME)
             THEN Return(WriteFile(RemoveFile(fs1, usr_plugin_dir, DISABLED_FILE_NAME),
                                   usr_plugin_dir, ENABLED_FILE_NAME),
                         TRUE, "", NoDiag,
                         mk \o <<Op("remove", <<>>, DISABLED_FILE_NAME),
                                 Op("write", <<>>, ENABLED_FILE_NAME)>>)
             ELSE Return(WriteFile(fs1, usr_plugin_dir, ENABLED_FILE_NAME),
                         TRUE, "", NoDiag,
                         mk \o <<Op("write", <<>>, ENABLED_FILE_NAME)>>)
        ELSE IF FileExists(fs1, usr_plugin_dir, ENABLED_FILE_NAME)
             THEN Return(WriteFile(RemoveFile(fs1, usr_plugin_dir, ENABLED_FILE_NAME),
                                   usr_plugin_dir, DISABLED_FILE_NAME),
                         TRUE, "", NoDiag,
                         mk \o <<Op("remove", <<>>, ENABLED_FILE_NAME),
                                 Op("write", <<>>, DISABLED_FILE_NAME)>>)
             ELSE Return(WriteFile(fs1, usr_plugin_dir, DISABLED_FILE_NAME),
                         TRUE, "", NoDiag,
                         mk \o <<Op("write", <<>>, DISABLED_FILE_NAME)>>)

(***************************************************************************)
(* marketplace_registry.py                                                 *)
(***************************************************************************)
CACHE_TTL == 300

\* A catalog entry is its identifier; the display metadata is carried along
\* unchanged and is not modelled.
Catalogs == UNION {[1..n -> Ids] : n \in 0..MaxCatalog}

\* The install counts the stats endpoint can report.
StatsMaps == {[i \in Ids |-> 0], [i \in Ids |-> IF i = "a" THEN 1 ELSE 0]}

\* marketplace_registry.py:12  _cache
\* has = FALSE is data None.  stats = {} reads as 0 for every identifier;
\* stats_none is a stats value that is not a mapping (JSON null).
EmptyCache == [has |-> FALSE, data |-> <<>>, ts |-> 0, stats |-> [i \in Ids |-> 0],
               stats_none |-> FALSE, stats_ts |-> 0]

\* Fault variant: the status is read from the other marker.
LocalStatusWrongMarker(fs, pid) ==
    LET is_disabled == FileExists(fs, pid, ENABLED_FILE_NAME)
    IN  IF is_disabled THEN "inactive" ELSE "active"

\* marketplace_registry.py:61-65 / 90-93,104  status of a local plugin
LocalStatus(fs, pid) ==
    LET is_disabled == FileExists(fs, pid, DISABLED_FILE_NAME)
    IN  IF is_disabled THEN "inactive" ELSE "active"

Row(pid, status, count, builtin, listed) ==
    [id |-> pid, status |-> status, install_count |-> count,
     is_builtin |-> builtin, listed |-> listed]

\* Fault variant: a catalog entry is reported without looking at the
\* local plugins.
CatalogRowNoLocal(fs, pid, local_by_name, stats) ==
    Row(pid, "available", stats[pid], FALSE, TRUE)

\* marketplace_registry.py:55-85  the row of one catalog entry
CatalogRow(fs, pid, local_by_name, stats) ==
    LET local == pid \in local_by_name
    IN  Row(pid,
            IF local THEN LocalStatus(fs, pid) ELSE "available",
            stats[pid],
            IF local THEN ~is_custom(fs, pid) ELSE FALSE,
            TRUE)

RECURSIVE CatalogPass(_, _, _, _, _)
\* marketplace_registry.py:55  for rp in registry_plugins
CatalogPass(fs, registry_plugins, i, local_by_name, stats) ==
    IF i > Len(registry_plugins) THEN [merged |-> <<>>, seen_ids |-> {}]
    ELSE LET rest == CatalogPass(fs, registry_plugins, i + 1, local_by_name, stats)
             pid == registry_plugins[i]
         IN  [merged |-> <<CatalogRow(fs, pid, local_by_name, stats)>> \o rest.merged,
              seen_ids |-> {pid} \cup rest.seen_ids]

\* Fault variant: the local pass no longer skips the identifiers already seen.
NotSeenNever(name, seen_ids) == TRUE

\* marketplace_registry.py:89  if lp.name not in seen_ids
NotSeen(name, seen_ids) == name \notin seen_ids

RECURSIVE LocalPass(_, _, _, _)
\* marketplace_registry.py:88  for lp in local_plugins
LocalPass(fs, local_plugins, i, seen_ids) ==
    IF i > Len(local_plugins) THEN <<>>
    ELSE LET name == local_plugins[i]
         IN  (IF NotSeen(name, seen_ids)
              THEN <<Row(name, LocalStatus(fs, name), 0, ~is_custom(fs, name), FALSE)>>
              ELSE <<>>)
             \o LocalPass(fs, local_plugins, i + 1, seen_ids)

\* Fault variant: sideloaded plugins are listed before the catalog.
MergeLocalFirst(fs, registry_plugins, local_plugins, stats) ==
    LET local_by_name == {local_plugins[k] : k \in DOMAIN local_plugins}
        first == CatalogPass(fs, registry_plugins, 1, local_by_name, stats)
    IN  LocalPass(fs, local_plugins, 1, first.seen_ids) \o first.merged

\* marketplace_registry.py:47-111  the merged list
Merge(fs, registry_plugins, local_plugins, stats) ==
    LET local_by_name == {local_plugins[k] : k \in DOMAIN local_plugins}
        first == CatalogPass(fs, registry_plugins, 1, local_by_name, stats)
    IN  first.merged \o LocalPass(fs, local_plugins, 1, first.seen_ids)

(***************************************************************************)
(* The state.                                                              *)
(*   usr        the directories below usr/plugins                          *)
(*   host       the directories that exist outside usr/plugins/<name>      *)
(*   cache      the module-level _cache of marketplace_registry.py         *)
(*   now        time.time()                                                *)
(*   res        the last request: what was asked, the response, and the    *)
(*              external commands and marker operations it performed       *)
(*   lastToggle per identifier, the state the last successful toggle asked *)
(*              for since its directory was last installed or removed      *)
(*   lastChange per identifier, the last install or uninstall that         *)
(*              succeeded                                                  *)
(*   calls      the concurrent install requests in progress (SpecRace)     *)
(***************************************************************************)
VARIABLES usr, host, cache, now, res, lastToggle, lastChange, calls

vars == <<usr, host, cache, now, res, lastToggle, lastChange, calls>>

NoRes == [op |-> "none", id |-> "", code |-> 200, ok |-> FALSE, error |-> "", result_ok |-> FALSE,
          diag |-> NoDiag, ops |-> <<>>, repo_url |-> <<>>, strategy |-> "", branch |-> "",
          enabled |-> FALSE, status |-> "", catalog |-> <<>>, local |-> <<>>,
          plugins |-> <<>>]

Now0 == CACHE_TTL + 1

\* Concurrent install requests: a caller is idle, has passed the installed
\* check ("checked"), or has its answer ("done").
Callers == {"c1", "c2"}
Idle == [pc |-> "idle", id |-> "", plugin_path |-> "", passed |-> FALSE, ok |-> FALSE,
         error |-> ""]
NoCalls == [c \in Callers |-> Idle]

Init ==
    /\ usr = EmptyFs
    /\ host = HostDirs
    /\ cache = EmptyCache
    /\ now = Now0
    /\ res = NoRes
    /\ lastToggle = [i \in Ids |-> "none"]
    /\ lastChange = [i \in Ids |-> "none"]
    /\ calls = NoCalls

\* A toggle recorded for a directory stops counting once an install or an
\* uninstall changes that directory.
KeepToggles(fs) == [i \in Ids |-> IF fs[i] # usr[i] THEN "none" ELSE lastToggle[i]]

\* The last install or uninstall that succeeded, per identifier.
Changed(ok, plugin_id, what) ==
    IF ok /\ plugin_id \in Ids THEN [lastChange EXCEPT ![plugin_id] = what] ELSE lastChange

\* marketplace_install.py:23-28  the stats report, sent when the acquisition
\* returned ok; post is how the request ended, which the handler discards
Notify(result, post) == IF result.ok THEN <<Op("post", <<>>, post)>> ELSE <<>>

\* Fault variant: a report that raises or times out fails the install.
InstallReturnUnabsorbed(result, post) ==
    IF result.ok /\ post \in {"raise", "timeout"}
    THEN [ok |-> FALSE, error |-> "Installation failed."]
    ELSE [ok |-> result.ok, error |-> result.error]

\* marketplace_install.py:30-33  what the handler returns
InstallReturn(result, post) == [ok |-> result.ok, error |-> result.error]

\* marketplace_install.py:10  MarketplaceInstall.process
Install(plugin_id, repo_url, plugin_path, branch, env) ==
    IF plugin_id = "" \/ repo_url = <<>>
    THEN /\ res' = [NoRes EXCEPT !.op = "install", !.id = plugin_id, !.code = 400,
                                 !.error = "Missing plugin_id or repo_url"]
         /\ UNCHANGED <<usr, host, cache, now, lastToggle, calls, lastChange>>
    ELSE LET result == clone_plugin(usr, repo_url, plugin_path, plugin_id, branch, env)
             post == Notify(result, env.post)
             ret == InstallReturn(result, env.post)
         IN  /\ usr' = result.fs
             /\ res' = [NoRes EXCEPT !.op = "install", !.id = plugin_id,
                                     !.ok = ret.ok, !.error = ret.error,
                                     !.result_ok = result.ok,
                                     !.diag = result.diag, !.ops = result.ops \o post,
                                     !.repo_url = repo_url,
                                     !.strategy = IF IsSubdirectory(plugin_path)
                                                  THEN "sparse" ELSE "full",
                                     !.branch = branch]
             /\ lastToggle' = KeepToggles(result.fs)
             /\ lastChange' = Changed(ret.ok, plugin_id, "installed")
             /\ UNCHANGED <<host, cache, now, calls>>

\* marketplace_uninstall.py:8  MarketplaceUninstall.process
Uninstall(plugin_id) ==
    IF plugin_id = ""
    THEN /\ res' = [NoRes EXCEPT !.op = "uninstall", !.code = 400,
                                 !.error = "Missing plugin_id"]
         /\ UNCHANGED <<usr, host, cache, now, lastToggle, calls, lastChange>>
    ELSE LET result == remove_plugin(usr, host, plugin_id)
         IN  /\ usr' = result.fs
             /\ host' = result.host
             /\ res' = [NoRes EXCEPT !.op = "uninstall", !.id = plugin_id,
                                     !.code = IF result.ok THEN 200 ELSE 400,
                                     !.ok = result.ok, !.error = result.error,
                                     !.ops = result.ops]
             /\ lastToggle' = KeepToggles(result.fs)
             /\ lastChange' = Changed(result.ok, plugin_id, "uninstalled")
             /\ UNCHANGED <<cache, now, calls>>

\* marketplace_toggle.py:9  MarketplaceToggle.process
Toggle(plugin_id, enabled) ==
    CASE plugin_id = "" ->
           /\ res' = [NoRes EXCEPT !.op = "toggle", !.code = 400, !.enabled = enabled,
                                   !.error = "Missing plugin_id"]
           /\ UNCHANGED <<usr, host, cache, now, lastToggle, calls, lastChange>>
      [] ~find_plugin_dir(usr, plugin_id) ->
           /\ res' = [NoRes EXCEPT !.op = "toggle", !.id = plugin_id, !.code = 404,
                                   !.enabled = enabled, !.error = "not found."]
           /\ UNCHANGED <<usr, host, cache, now, lastToggle, calls, lastChange>>
      [] OTHER ->
           LET result == ToggleMarkers(usr, plugin_id, enabled)
           IN  /\ usr' = result.fs
               /\ res' = [NoRes EXCEPT !.op = "toggle", !.id = plugin_id, !.ok = TRUE,
                                       !.enabled = enabled, !.ops = result.ops,
                                       !.status = IF enabled THEN "active" ELSE "inactive"]
               /\ lastToggle' = [lastToggle EXCEPT ![plugin_id] =
                                    IF enabled THEN "on" ELSE "off"]
               /\ UNCHANGED <<host, cache, now, calls, lastChange>>

\* The catalog endpoint answers [ok, doc]: ok = FALSE is an exception, a bad
\* status or a body that is not JSON; otherwise doc is the document.
\* The stats endpoint answers [kind, doc]:
\*   "raise"     the request raised or timed out
\*   "status"    a response whose status is not 200
\*   "notjson"   status 200, resp.json() raises
\*   "nocounts"  status 200, a JSON object without "counts"
\*   "badcounts" status 200, "counts" is null
\*   "ok"        status 200, "counts" is the mapping doc

\* marketplace_registry.py:20  the catalog is fetched when none is cached or
\* the cached one is older than CACHE_TTL
RegistryStale(c, t) == ~c.has \/ (t - c.ts) > CACHE_TTL

\* marketplace_registry.py:33  the stats are fetched by their own timestamp
StatsStale(c, t) == (t - c.stats_ts) > CACHE_TTL

\* marketplace_registry.py:20-30  the catalog fetch
FetchRegistry(c, t, reg) ==
    IF RegistryStale(c, t)
    THEN IF reg.ok THEN [c EXCEPT !.has = TRUE, !.data = reg.doc, !.ts = t] ELSE c
    ELSE c

\* marketplace_registry.py:33-41  the stats fetch: whatever
\* resp.json().get("counts", {}) evaluates to is stored
FetchStats(c, t, st) ==
    IF StatsStale(c, t)
    THEN CASE st.kind = "ok" ->
                [c EXCEPT !.stats = st.doc, !.stats_none = FALSE, !.stats_ts = t]
           [] st.kind = "nocounts" ->
                [c EXCEPT !.stats = [i \in Ids |-> 0], !.stats_none = FALSE, !.stats_ts = t]
           [] st.kind = "badcounts" ->
                [c EXCEPT !.stats_none = TRUE, !.stats_ts = t]
           [] OTHER -> c
    ELSE c

REGISTRY == "registry"
STATS == "stats"
Get(what, out) == OpOut("get", <<>>, what, out)

\* marketplace_registry.py:16  MarketplaceRegistry.process
List(reg, st, order) ==
    LET c1 == FetchRegistry(cache, now, reg)
        reg_ops == IF RegistryStale(cache, now)
                   THEN <<Get(REGISTRY, IF reg.ok THEN "ok" ELSE "fail")>> ELSE <<>>
    IN  IF ~c1.has
        THEN /\ res' = [NoRes EXCEPT !.op = "list", !.error = "Failed to fetch registry",
                                     !.ops = reg_ops]
             /\ UNCHANGED <<usr, host, cache, now, lastToggle, calls, lastChange>>
        ELSE LET c2 == FetchStats(c1, now, st)
                 ops == reg_ops \o (IF StatsStale(c1, now)
                                    THEN <<Get(STATS, st.kind)>> ELSE <<>>)
                 local_plugins == get_enhanced_plugins_list(usr, order)
             IN  /\ cache' = c2
                 /\ res' = IF c2.stats_none /\ c2.data # <<>>
                           THEN \* line 78: stats.get on a value that is no mapping
                                [NoRes EXCEPT !.op = "list", !.code = 500,
                                              !.error = "AttributeError", !.ops = ops,
                                              !.catalog = c2.data, !.local = local_plugins]
                           ELSE [NoRes EXCEPT !.op = "list", !.ok = TRUE, !.ops = ops,
                                              !.catalog = c2.data, !.local = local_plugins,
                                              !.plugins = Merge(usr, c2.data, local_plugins,
                                                                c2.stats)]
                 /\ UNCHANGED <<usr, host, now, lastToggle, calls, lastChange>>

(***************************************************************************)
(* The environment's answers, one record per course a request can take.    *)
(***************************************************************************)
RepoContents == {{}, {MANIFEST_YAML}, {MANIFEST_JSON},
                 {MANIFEST_YAML, ENABLED_FILE_NAME, DISABLED_FILE_NAME}}
\* The report is answered (any status), times out after 5 s, or raises.
PostOutcomes == {"ok", "fail", "timeout", "raise"}

BaseEnv == [clone |-> "ok", left |-> FALSE, repo |-> {}, setup |-> "ok",
            pull |-> [b \in Branches |-> "fail"], subdir |-> NoSub,
            move |-> "ok", post |-> "ok"]

FullEnvs ==
    {[BaseEnv EXCEPT !.repo = c, !.post = p] : c \in RepoContents, p \in PostOutcomes}
    \cup {[BaseEnv EXCEPT !.clone = o, !.left = l] : o \in {"fail", "timeout"}, l \in BOOLEAN}
    \cup {[BaseEnv EXCEPT !.clone = "raise"]}

\* The answers to the pulls the call makes: the branches it does not reach
\* (not tried, or after the attempt that ends the loop) are left at "fail".
PullFns(branch) ==
    LET bs == BranchesToTry(branch)
    IN  {f \in [Branches -> PullOutcomes] :
            /\ \A b \in Branches : (\A k \in DOMAIN bs : bs[k] # b) => f[b] = "fail"
            /\ \A k \in DOMAIN bs : \A j \in DOMAIN bs :
                   (j < k /\ f[bs[j]] # "fail") => f[bs[k]] = "fail"}

PullReaches(branch, f) == \E k \in DOMAIN BranchesToTry(branch) : f[BranchesToTry(branch)[k]] = "ok"

SparseEnvs(branch) ==
    {[BaseEnv EXCEPT !.setup = "init", !.left = l] : l \in BOOLEAN}
    \cup {[BaseEnv EXCEPT !.setup = s] : s \in {"remote", "config"}}
    \cup {[BaseEnv EXCEPT !.pull = f] : f \in PullFns(branch)}
    \cup {[BaseEnv EXCEPT !.pull = f, !.subdir = [ex |-> TRUE, files |-> c], !.post = p] :
             f \in {g \in PullFns(branch) : PullReaches(branch, g)},
             c \in RepoContents, p \in PostOutcomes}
    \cup {[BaseEnv EXCEPT !.pull = f, !.subdir = [ex |-> TRUE, files |-> {MANIFEST_YAML}],
                          !.move = "raise", !.left = l] :
             f \in {g \in PullFns(branch) : PullReaches(branch, g)}, l \in BOOLEAN}

Envs(plugin_path, branch) ==
    IF IsSubdirectory(plugin_path) THEN SparseEnvs(branch) ELSE FullEnvs

PluginPaths == {"", ".", "plugins/x"}
RequestBranches == {"", "dev"}
\* A pasted web URL: "b/t/b" stands for <repo>/tree/<branch>.
SampleUrls == {<<"b", "/", "t", "/", "b">>}
\* The identifiers the acquisition specification installs.
AcquireIds == {"a", "a_tmp_clone"}

(***************************************************************************)
(* Spec: install, uninstall and toggle requests with every answer git can  *)
(* give.                                                                   *)
(***************************************************************************)
InstallAny ==
    \E plugin_id \in AcquireIds \cup {""}, repo_url \in SampleUrls \cup {<<>>},
       plugin_path \in PluginPaths, branch \in RequestBranches :
        \E env \in IF plugin_id = "" \/ repo_url = <<>>
                   THEN {BaseEnv} ELSE Envs(plugin_path, branch) :
            Install(plugin_id, repo_url, plugin_path, branch, env)

UninstallAny == \E plugin_id \in AcquireIds \cup {""} : Uninstall(plugin_id)

ToggleAny == \E plugin_id \in AcquireIds \cup {""}, enabled \in BOOLEAN : Toggle(plugin_id, enabled)

Next == InstallAny \/ UninstallAny \/ ToggleAny

Spec == Init /\ [][Next]_vars

(***************************************************************************)
(* SpecUrl: installs of one identifier from every URL up to MaxUrlLen      *)
(* characters, by both strategies.                                         *)
(***************************************************************************)
UrlEnvs(plugin_path) ==
    IF IsSubdirectory(plugin_path)
    THEN {[BaseEnv EXCEPT !.pull = [b \in Branches |-> "ok"],
                          !.subdir = [ex |-> TRUE, files |-> {MANIFEST_YAML}]],
          [BaseEnv EXCEPT !.setup = "remote"]}
    ELSE {[BaseEnv EXCEPT !.repo = {MANIFEST_YAML}], [BaseEnv EXCEPT !.clone = "fail"]}

\* One install request per URL: the next one comes after an uninstall.
InstallUrl ==
    /\ res.op \in {"none", "uninstall"}
    /\ \E repo_url \in Urls, plugin_path \in PluginPaths :
           \E env \in UrlEnvs(plugin_path) : Install("a", repo_url, plugin_path, "", env)

UninstallUrl == Uninstall("a")

NextUrl == InstallUrl \/ UninstallUrl

SpecUrl == Init /\ [][NextUrl]_vars

(***************************************************************************)
(* SpecMarket: the four requests together.  Installs are plain full        *)
(* clones; the catalog endpoint fails or answers with a catalog that lists *)
(* two of the three identifiers; the framework enumerates in any order.    *)
(***************************************************************************)
MarketCatalogs == {<<"a", "b">>, <<>>}

MarketEnvs ==
    {[BaseEnv EXCEPT !.repo = c] : c \in {{MANIFEST_YAML},
                                         {MANIFEST_YAML, ENABLED_FILE_NAME, DISABLED_FILE_NAME}}}
    \cup {[BaseEnv EXCEPT !.clone = "fail"]}

RegistryFailed == [ok |-> FALSE, doc |-> <<>>]
StatsFailed == [kind |-> "raise", doc |-> [i \in Ids |-> 0]]
RegistryAnswers(catalogs) == {RegistryFailed} \cup {[ok |-> TRUE, doc |-> c] : c \in catalogs}
StatsAnswers == {StatsFailed} \cup {[kind |-> "ok", doc |-> m] : m \in StatsMaps}

\* The answers that can make a difference: an endpoint that is not asked
\* (its cache entry is fresh) has one.
RegistryAsked == RegistryStale(cache, now)
StatsAsked == StatsStale(cache, now)

InstallMarket ==
    \E plugin_id \in Ids, env \in MarketEnvs :
        Install(plugin_id, <<"b">>, ".", "", env)

UninstallMarket == \E plugin_id \in Ids : Uninstall(plugin_id)

ToggleMarket == \E plugin_id \in Ids, enabled \in BOOLEAN : Toggle(plugin_id, enabled)

ListMarket ==
    \E reg \in IF RegistryAsked THEN RegistryAnswers(MarketCatalogs) ELSE {RegistryFailed},
       st \in IF StatsAsked THEN StatsAnswers ELSE {StatsFailed},
       order \in Orders :
        List(reg, st, order)

NextMarket == InstallMarket \/ UninstallMarket \/ ToggleMarket \/ ListMarket

SpecMarket == Init /\ [][NextMarket]_vars

(***************************************************************************)
(* SpecReconcile: the merge applied to every catalog of up to MaxCatalog   *)
(* entries, every enumeration order and every set of installed plugins     *)
(* with the markers toggles leave.                                         *)
(***************************************************************************)
InstalledDirs == {NoDir, Dir({MANIFEST_YAML}),
                  Dir({MANIFEST_YAML, ENABLED_FILE_NAME}),
                  Dir({MANIFEST_YAML, DISABLED_FILE_NAME})}

InitReconcile ==
    /\ usr \in {fs \in [Names -> InstalledDirs] : \A n \in Names \ Ids : fs[n] = NoDir}
    /\ host = HostDirs
    /\ cache = EmptyCache
    /\ now = Now0
    /\ res = NoRes
    /\ lastToggle = [i \in Ids |-> "none"]
    /\ lastChange = [i \in Ids |-> "none"]
    /\ calls = NoCalls

ListReconcile ==
    \E reg \in IF RegistryAsked THEN RegistryAnswers(Catalogs) ELSE {RegistryFailed},
       st \in IF StatsAsked THEN StatsAnswers ELSE {StatsFailed},
       order \in Orders :
        List(reg, st, order)

NextReconcile == ListReconcile

SpecReconcile == InitReconcile /\ [][NextReconcile]_vars

(***************************************************************************)
(* Claims checked under Spec.  res describes the request that produced the *)
(* current state, so a state predicate over res and usr speaks about the   *)
(* moment a call returns.                                                  *)
(***************************************************************************)
IsInstall == res.op = "install" /\ res.code = 200
PullsOf(ops) == SelectSeq(ops, LAMBDA o : o.cmd = "pull")
Ran(cmd) == \E k \in DOMAIN res.ops : res.ops[k].cmd = cmd

\* C1: an install whose target directory usr/plugins/<id> exists returns the
\* AlreadyInstalled error, leaves every directory as it was and runs no
\* clone, pull or any other command, whichever strategy was asked for.
C1_AlreadyInstalledNoMutation ==
    [][(res'.op = "install" /\ res'.code = 200 /\ PathExists(usr, res'.id))
        => (/\ ~res'.ok
            /\ res'.error = ERR_ALREADY_INSTALLED
            /\ usr' = usr
            /\ res'.ops = <<>>)]_vars

C1_Witness ==
    /\ IsInstall
    /\ res.strategy = "sparse"
    /\ res.error = ERR_ALREADY_INSTALLED
    /\ PathExists(usr, res.id)

\* C2: an acquisition that returns the manifest-missing, path-not-found or
\* pull-failed error, or the error of a pull that timed out (it started with
\* the target absent), leaves no target directory behind.
C2_CleanupInvariant ==
    (IsInstall /\ (\/ res.error \in {ERR_NO_MANIFEST_ROOT, ERR_NO_MANIFEST_PATH,
                                     ERR_PATH_NOT_FOUND, ERR_PULL_FAILED}
                   \/ (res.error = "exception" /\ res.diag.cmd = "pull")))
        => ~PathExists(usr, res.id)

C2_Witness ==
    /\ IsInstall
    /\ res.error = ERR_NO_MANIFEST_PATH
    /\ Ran("move")
    /\ ~PathExists(usr, res.id)

\* C3: a full-clone acquisition that returns an error (clone exit code # 0,
\* timeout, exception, manifest missing) leaves no target directory behind.
C3_FullCloneRollback ==
    (IsInstall /\ res.strategy = "full" /\ ~res.ok /\ Ran("clone"))
        => ~PathExists(usr, res.id)

\* C4: a sparse acquisition leaves no staging directory <target>_tmp_clone
\* behind, on whichever path _sparse_clone is left.
C4_StagingRemoved ==
    (IsInstall /\ res.strategy = "sparse" /\ res.error # ERR_ALREADY_INSTALLED)
        => ~PathExists(usr, TmpDirOf(res.id))

C4_Witness ==
    /\ IsInstall
    /\ res.strategy = "sparse"
    /\ res.error = "exception"
    /\ res.diag.cmd = "config"
    /\ ~PathExists(usr, TmpDirOf(res.id))

\* C5: sparse branch selection.  With a branch, exactly that branch is
\* pulled; with none, main is pulled first and master if and only if the
\* main attempt did not succeed (a timeout counts as a failed attempt); no
\* pull follows a successful one; when every attempt fails the call returns
\* the pull-failed error with the stderr of the last attempted branch.
C5_BranchSelection ==
    LET pulls == PullsOf(res.ops)
        n == Len(pulls)
    IN  (IsInstall /\ res.strategy = "sparse" /\ n > 0) =>
            /\ res.branch # "" => (n = 1 /\ pulls[1].arg = res.branch)
            /\ res.branch = "" =>
                   /\ pulls[1].arg = "main"
                   /\ (n = 2) <=> (pulls[1].out # "ok")
                   /\ n = 2 => pulls[2].arg = "master"
                   /\ n <= 2
            /\ \A k \in 1..n : pulls[k].out = "ok" => k = n
            /\ (\A k \in 1..n : pulls[k].out # "ok") =>
                   /\ res.error = ERR_PULL_FAILED
                   /\ res.diag = Stderr("pull", pulls[n].arg)

\* C5 without the timeout: the same statement for the calls in which no pull
\* timed out.
C5_BranchSelectionNoTimeout ==
    LET pulls == PullsOf(res.ops)
        n == Len(pulls)
    IN  (/\ IsInstall /\ res.strategy = "sparse" /\ n > 0
         /\ \A k \in 1..n : pulls[k].out # "timeout") =>
            /\ res.branch # "" => (n = 1 /\ pulls[1].arg = res.branch)
            /\ res.branch = "" =>
                   /\ pulls[1].arg = "main"
                   /\ (n = 2) <=> (pulls[1].out # "ok")
                   /\ n = 2 => pulls[2].arg = "master"
                   /\ n <= 2
            /\ \A k \in 1..n : pulls[k].out = "ok" => k = n
            /\ (\A k \in 1..n : pulls[k].out # "ok") =>
                   /\ res.error = ERR_PULL_FAILED
                   /\ res.diag = Stderr("pull", pulls[n].arg)

\* C7: after a toggle of an existing plugin exactly the marker of the
\* requested state exists, whatever markers were there before, and a removal
\* of the opposing marker comes before the write of the own one.
C7_SentinelExclusion ==
    (res.op = "toggle" /\ res.ok) =>
        LET own == IF res.enabled THEN ENABLED_FILE_NAME ELSE DISABLED_FILE_NAME
            opposing == IF res.enabled THEN DISABLED_FILE_NAME ELSE ENABLED_FILE_NAME
        IN  /\ FileExists(usr, res.id, own)
            /\ ~FileExists(usr, res.id, opposing)
            /\ \E w \in DOMAIN res.ops :
                   /\ res.ops[w] = Op("write", <<>>, own)
                   /\ \A k \in DOMAIN res.ops :
                          res.ops[k].cmd = "remove" =>
                              (k < w /\ res.ops[k].arg = opposing)

\* A toggle that found both markers: the repository shipped them, the call
\* removed the opposing one.
C7_Witness ==
    /\ res.op = "toggle" /\ res.ok /\ res.enabled
    /\ Ran("remove")
    /\ lastToggle[res.id] = "on"
    /\ usr[res.id].files = {MANIFEST_YAML, ENABLED_FILE_NAME}

(***************************************************************************)
(* Claim checked under SpecUrl.                                            *)
(***************************************************************************)
MarkerPositions(url) ==
    {i \in 1..Len(url) : OccursAt(url, TREE_MARKER, i) \/ OccursAt(url, BLOB_MARKER, i)}

\* The prefix that ends just before the leftmost marker; the URL itself when
\* it holds no marker.
BeforeFirstMarker(url) ==
    IF MarkerPositions(url) = {} THEN url
    ELSE SubSeq(url, 1, (CHOOSE i \in MarkerPositions(url) :
                            \A j \in MarkerPositions(url) : i <= j) - 1)

\* C6: the URL handed to git clone or git remote add is the input cut just
\* before the leftmost "/tree/" or "/blob/", so it holds neither marker; an
\* input with neither marker is handed over unchanged.
C6_UrlNormalization ==
    IsInstall =>
        \A k \in DOMAIN res.ops :
            res.ops[k].cmd \in {"clone", "remote add"} =>
                /\ res.ops[k].url = BeforeFirstMarker(res.repo_url)
                /\ MarkerPositions(res.ops[k].url) = {}

\* What the loop does instead: "/tree/" is looked for first, "/blob/" only in
\* a URL without "/tree/".
C6_TreeBeforeBlob ==
    IsInstall =>
        \A k \in DOMAIN res.ops :
            res.ops[k].cmd \in {"clone", "remote add"} =>
                LET url == res.repo_url
                    tree == {i \in 1..Len(url) : OccursAt(url, TREE_MARKER, i)}
                    blob == {i \in 1..Len(url) : OccursAt(url, BLOB_MARKER, i)}
                    first(S) == CHOOSE i \in S : \A j \in S : i <= j
                IN  res.ops[k].url =
                        CASE tree # {} -> SubSeq(url, 1, first(tree) - 1)
                          [] blob # {} -> SubSeq(url, 1, first(blob) - 1)
                          [] OTHER -> url

(***************************************************************************)
(* Claims checked under SpecMarket and SpecReconcile.                      *)
(***************************************************************************)
IsList == res.op = "list" /\ res.ok
RowIds(rows) == [k \in DOMAIN rows |-> rows[k].id]
Range(seq) == {seq[k] : k \in DOMAIN seq}
Distinct(seq) == \A j \in DOMAIN seq : \A k \in DOMAIN seq : j # k => seq[j] # seq[k]

\* C8: a reconciliation reports every locally present plugin that was
\* toggled with the status of its last toggle: active after enabled=true,
\* inactive after enabled=false, catalog-listed or sideloaded.
C8_ToggleThenReconcile ==
    IsList =>
        \A i \in Ids :
            (find_plugin_dir(usr, i) /\ lastToggle[i] # "none") =>
                /\ \E k \in DOMAIN res.plugins : res.plugins[k].id = i
                /\ \A k \in DOMAIN res.plugins :
                       res.plugins[k].id = i =>
                           res.plugins[k].status =
                               IF lastToggle[i] = "on" THEN "active" ELSE "inactive"

\* A listed plugin toggled on after being off, a sideloaded one toggled off.
C8_Witness ==
    /\ IsList
    /\ res.catalog = <<"a", "b">>
    /\ lastToggle["a"] = "on"
    /\ lastToggle["a_tmp_clone"] = "off"
    /\ \E k \in DOMAIN res.plugins :
           res.plugins[k] = Row("a", "active", 0, FALSE, TRUE)
    /\ \E k \in DOMAIN res.plugins :
           res.plugins[k] = Row("a_tmp_clone", "inactive", 0, FALSE, FALSE)

\* C9: the merged view is one row per catalog entry in catalog order, then
\* the local plugins the catalog does not name, in enumeration order.
C9_ReconcileOrdering ==
    IsList =>
        LET local_only == SelectSeq(res.local, LAMBDA n : n \notin Range(res.catalog))
        IN  /\ RowIds(res.plugins) = res.catalog \o local_only
            /\ \A k \in DOMAIN res.plugins :
                   res.plugins[k].listed <=> (k <= Len(res.catalog))

\* Catalog [A, B], local [B, C]: the view is [A, B, C], A available.
C9_Witness ==
    /\ IsList
    /\ res.catalog = <<"a", "b">>
    /\ res.local = <<"b", "a_tmp_clone">>
    /\ RowIds(res.plugins) = <<"a", "b", "a_tmp_clone">>
    /\ res.plugins[1].status = "available"
    /\ res.plugins[2].status = "active"

\* C10 as stated: for every catalog and every enumeration, no identifier is
\* in two rows and the rows are the identifiers of catalog and local set.
C10_OneRowPerId ==
    IsList =>
        /\ Distinct(RowIds(res.plugins))
        /\ Range(RowIds(res.plugins)) = Range(res.catalog) \cup Range(res.local)

\* C10 (amended): for every catalog whose identifiers are pairwise distinct
\* and every enumeration that names each local plugin once, no identifier
\* is in two rows and the rows are exactly the identifiers of the catalog
\* and of the local set.
C10_OneRowPerIdDistinctCatalog ==
    (IsList /\ Distinct(res.catalog) /\ Distinct(res.local)) =>
        /\ Distinct(RowIds(res.plugins))
        /\ Range(RowIds(res.plugins)) = Range(res.catalog) \cup Range(res.local)

\* An identifier in the catalog and in the local set, merged into one row.
C10_Witness ==
    /\ IsList
    /\ res.catalog = <<"b", "a">>
    /\ res.local = <<"a", "b">>
    /\ Len(res.plugins) = 2

(***************************************************************************)
(* SpecCache: list calls as the clock advances.  Both endpoints give every *)
(* answer they can; the clock moves in steps that bring the elapsed time   *)
(* to exactly CACHE_TTL and to one second more.                            *)
(***************************************************************************)
MaxTicks == 4

TickSteps == {CACHE_TTL \div 2, (CACHE_TTL \div 2) + 1}

\* marketplace_registry.py:17  now = time.time(): the clock between two calls
Tick(d) ==
    /\ now + d <= Now0 + MaxTicks * ((CACHE_TTL \div 2) + 1)
    /\ now' = now + d
    /\ UNCHANGED <<usr, host, cache, res, lastToggle, calls, lastChange>>

CacheCatalogs == {<<"a">>, <<>>}

StatsKinds == {"raise", "status", "notjson", "nocounts", "badcounts"}

AllStatsAnswers ==
    {[kind |-> k, doc |-> [i \in Ids |-> 0]] : k \in StatsKinds}
    \cup {[kind |-> "ok", doc |-> m] : m \in StatsMaps}

TickCache == \E d \in TickSteps : Tick(d)

ListCache ==
    \E reg \in IF RegistryAsked THEN RegistryAnswers(CacheCatalogs) ELSE {RegistryFailed},
       st \in IF StatsAsked THEN AllStatsAnswers ELSE {StatsFailed} :
        List(reg, st, <<"a", "a_tmp_clone", "b">>)

NextCache == TickCache \/ ListCache

SpecCache == Init /\ [][NextCache]_vars

(***************************************************************************)
(* Claims about the cache.  A step that leaves the clock alone and ends in *)
(* a list response is a list call: cache is the cache the call found,      *)
(* cache' the one it left, res'.ops the fetches it attempted.              *)
(***************************************************************************)
ListStep == now' = now /\ res'.op = "list"
Attempted(r, what) == \E k \in DOMAIN r.ops : r.ops[k].cmd = "get" /\ r.ops[k].arg = what
Answered(r, what, outs) ==
    \E k \in DOMAIN r.ops :
        r.ops[k].cmd = "get" /\ r.ops[k].arg = what /\ r.ops[k].out \in outs
CatalogKept == cache'.has = cache.has /\ cache'.data = cache.data /\ cache'.ts = cache.ts

\* C11: a list call whose catalog fetch fails returns an error when no
\* catalog is cached; when one is cached the call succeeds with the rows of
\* that catalog, and the cached catalog and its timestamp are unchanged.
C11_RegistryFetchFailure ==
    [][(ListStep /\ Answered(res', REGISTRY, {"fail"})) =>
          IF ~cache.has
          THEN ~res'.ok /\ res'.error = "Failed to fetch registry" /\ cache' = cache
          ELSE res'.ok /\ res'.catalog = cache.data /\ CatalogKept]_vars

\* C11 holds in every call that the stats value does not break.
C11_RegistryFetchFailureStatsMapping ==
    [][(ListStep /\ Answered(res', REGISTRY, {"fail"}) /\ ~cache'.stats_none) =>
          IF ~cache.has
          THEN ~res'.ok /\ res'.error = "Failed to fetch registry" /\ cache' = cache
          ELSE res'.ok /\ res'.catalog = cache.data /\ CatalogKept]_vars

\* C12: a list call attempts the catalog fetch exactly when no catalog is
\* cached or more than CACHE_TTL seconds have passed since the last fetch
\* that succeeded; the timestamp moves only on a successful fetch, so a
\* failed refresh is retried by the next call; a call inside the window
\* makes no fetch and serves the cached catalog.
C12_CatalogFreshness ==
    [][ListStep =>
          /\ Attempted(res', REGISTRY) <=> (~cache.has \/ now - cache.ts > CACHE_TTL)
          /\ IF Answered(res', REGISTRY, {"ok"})
             THEN cache'.has /\ cache'.ts = now
             ELSE CatalogKept
          /\ (cache.has /\ now - cache.ts <= CACHE_TTL) =>
                 res'.ok /\ res'.catalog = cache.data]_vars

\* The fetch policy of C12 alone, whatever the call then returns.
C12_CatalogFetchPolicy ==
    [][ListStep =>
          /\ Attempted(res', REGISTRY) <=> (~cache.has \/ now - cache.ts > CACHE_TTL)
          /\ IF Answered(res', REGISTRY, {"ok"})
             THEN cache'.has /\ cache'.ts = now
             ELSE CatalogKept]_vars

\* C13: in a list call that gets past the catalog step the stats fetch is
\* attempted exactly when the stats timestamp is older than CACHE_TTL,
\* whether or not the catalog was fetched; a stats fetch that fails (raises,
\* non-200, body that is not the stats document) leaves the cached stats and
\* their timestamp as they were; the call fails only for want of a catalog.
C13_StatsBestEffort ==
    [][ListStep =>
          /\ cache'.has => (Attempted(res', STATS) <=> now - cache.stats_ts > CACHE_TTL)
          /\ Answered(res', STATS, StatsKinds) =>
                 /\ cache'.stats = cache.stats
                 /\ cache'.stats_none = cache.stats_none
                 /\ cache'.stats_ts = cache.stats_ts
          /\ ~res'.ok => (~cache'.has /\ Answered(res', REGISTRY, {"fail"}))]_vars

\* C13 for the failures the code does absorb: an exception, a status other
\* than 200, a body that is not JSON.
C13_StatsAbsorbed ==
    [][(ListStep /\ ~cache'.stats_none) =>
          /\ cache'.has => (Attempted(res', STATS) <=> now - cache.stats_ts > CACHE_TTL)
          /\ Answered(res', STATS, {"raise", "status", "notjson"}) =>
                 /\ cache'.stats = cache.stats
                 /\ cache'.stats_ts = cache.stats_ts
          /\ ~res'.ok => (~cache'.has /\ Answered(res', REGISTRY, {"fail"}))]_vars

(***************************************************************************)
(* SpecRemove: installs of plain identifiers and uninstalls of every       *)
(* identifier, the ones with separators included.                          *)
(***************************************************************************)
InstallRemove ==
    \E plugin_id \in Ids, env \in MarketEnvs : Install(plugin_id, <<"b">>, ".", "", env)

UninstallRemove == \E plugin_id \in UninstallIds \cup {""} : Uninstall(plugin_id)

NextRemove == InstallRemove \/ UninstallRemove

SpecRemove == Init /\ [][NextRemove]_vars

\* A step that ends in an uninstall response for an identifier.
UninstallStep == res'.op = "uninstall" /\ res'.id # ""
ResolvesToBuiltin(plugin_id) ==
    Abspath(UsrPluginPath(plugin_id)) = Abspath(BuiltinPluginPath(plugin_id))

\* C14: an uninstall of an identifier whose resolved target path equals the
\* resolved built-in path of that identifier is rejected with the Protected
\* error and removes nothing: every directory is as it was before the call.
C14_BuiltinProtected ==
    [][(UninstallStep /\ ResolvesToBuiltin(res'.id)) =>
          /\ ~res'.ok
          /\ res'.code = 400
          /\ res'.error = ERR_BUILTIN
          /\ res'.ops = <<>>
          /\ host' = host
          /\ usr' = usr]_vars

\* The absolute identifier of a shipped plugin is rejected and the shipped
\* directory is still there.
C14_Witness ==
    /\ res.op = "uninstall"
    /\ res.id = "/a0/plugins/b"
    /\ ResolvesToBuiltin(res.id)
    /\ res.error = ERR_BUILTIN
    /\ Abspath(BuiltinPluginPath(res.id)) \in host

\* C20: whatever identifier it is given, an uninstall removes no directory
\* outside usr/plugins, and none below the built-in plugins location.
C20_RemoveStaysInside ==
    [][UninstallStep => host' = host]_vars

\* What the guard does give: an uninstall of a plain identifier (no
\* separator) removes nothing outside usr/plugins.
C20_PlainIdStaysInside ==
    [][(UninstallStep /\ res'.id \in Ids) => host' = host]_vars

(***************************************************************************)
(* Install telemetry, checked under Spec.                                  *)
(***************************************************************************)
\* C15: an install request sends the stats report exactly when the
\* acquisition returned success; the report is the last thing the request
\* does; and the response is the acquisition's result whether the report
\* was answered, failed, timed out or raised.
C15_InstallTelemetry ==
    IsInstall =>
        /\ Ran("post") <=> res.result_ok
        /\ \A k \in DOMAIN res.ops : res.ops[k].cmd = "post" => k = Len(res.ops)
        /\ res.ok = res.result_ok
        /\ res.ok <=> res.error = ""
        /\ res.ok => HasManifest(usr, res.id)

\* A sparse install whose report raised, answered with success.
C15_Witness ==
    /\ IsInstall
    /\ res.strategy = "sparse"
    /\ res.result_ok
    /\ res.ok
    /\ Len(res.ops) > 1
    /\ res.ops[Len(res.ops)] = Op("post", <<>>, "raise")

(***************************************************************************)
(* SpecRace: two callers install the same identifier at the same time.     *)
(* A call is two steps, the installed check (git_ops.py:24) and the rest   *)
(* of clone_plugin, so the other caller's check or whole acquisition can   *)
(* fall between them.                                                      *)
(***************************************************************************)
RaceId == "a"
RacePaths == {".", "plugins/x"}

\* git clone refuses a destination that exists and is not empty.
RaceEnvs(fs, plugin_id, plugin_path) ==
    IF ~IsSubdirectory(plugin_path) /\ fs[plugin_id].ex
       /\ (fs[plugin_id].files # {} \/ fs[plugin_id].sub.ex)
    THEN {[BaseEnv EXCEPT !.clone = "fail"]}
    ELSE UrlEnvs(plugin_path)

\* git_ops.py:22-25  the installed check of one caller
RaceCheck(c, plugin_id, plugin_path) ==
    /\ calls[c].pc = "idle"
    /\ calls' = [calls EXCEPT ![c] =
                    IF AlreadyInstalled(usr, plugin_id)
                    THEN [Idle EXCEPT !.pc = "done", !.id = plugin_id,
                                      !.plugin_path = plugin_path,
                                      !.error = ERR_ALREADY_INSTALLED]
                    ELSE [Idle EXCEPT !.pc = "checked", !.id = plugin_id,
                                      !.plugin_path = plugin_path, !.passed = TRUE]]
    /\ UNCHANGED <<usr, host, cache, now, res, lastToggle, lastChange>>

\* git_ops.py:27-44  the acquisition of a caller that passed the check
RaceAcquire(c, env) ==
    /\ calls[c].pc = "checked"
    /\ LET result == Acquire(usr, <<"b">>, calls[c].plugin_path, calls[c].id, "", env)
       IN  /\ usr' = result.fs
           /\ calls' = [calls EXCEPT ![c].pc = "done", ![c].ok = result.ok,
                                     ![c].error = result.error]
           /\ lastToggle' = KeepToggles(result.fs)
           /\ lastChange' = Changed(result.ok, calls[c].id, "installed")
    /\ UNCHANGED <<host, cache, now, res>>

\* Both callers have their answers; the next pair of requests can start.
RaceReturn ==
    /\ \A c \in Callers : calls[c].pc = "done"
    /\ calls' = NoCalls
    /\ UNCHANGED <<usr, host, cache, now, res, lastToggle, lastChange>>

RaceCheckAny == \E c \in Callers, plugin_path \in RacePaths : RaceCheck(c, RaceId, plugin_path)

RaceAcquireAny ==
    \E c \in Callers :
        /\ calls[c].pc = "checked"
        /\ \E env \in RaceEnvs(usr, calls[c].id, calls[c].plugin_path) : RaceAcquire(c, env)

UninstallRace == calls = NoCalls /\ Uninstall(RaceId)

NextRace == RaceCheckAny \/ RaceAcquireAny \/ RaceReturn \/ UninstallRace

SpecRace == Init /\ [][NextRace]_vars

\* C16: when two installs of one identifier have both passed the installed
\* check and both have returned, at most one of them returned success and
\* the target directory holds no directory nested by the other, full clone
\* or sparse.
C16_SingleWriter ==
    (\A c \in Callers : calls[c].pc = "done" /\ calls[c].passed /\ calls[c].id = RaceId) =>
        /\ ~(\A c \in Callers : calls[c].ok)
        /\ ~usr[RaceId].sub.ex

\* With each acquisition taken as one step, two full clones never both
\* succeed: git refuses a destination that is not empty.
C16_FullCloneSingleWriter ==
    (\A c \in Callers : calls[c].pc = "done" /\ calls[c].passed
                        /\ ~IsSubdirectory(calls[c].plugin_path)) =>
        /\ ~(\A c \in Callers : calls[c].ok)
        /\ ~usr[RaceId].sub.ex

(***************************************************************************)
(* Reconciliation after install and uninstall, checked under SpecMarket.   *)
(* lastChange[X] is the last install or uninstall of X that succeeded;     *)
(* toggles, failed requests and requests for other identifiers may have    *)
(* come since.                                                             *)
(***************************************************************************)
StatusesOf(i) == {res.plugins[k].status : k \in {j \in DOMAIN res.plugins : res.plugins[j].id = i}}

\* C17 as stated: a list response reports every catalog identifier whose
\* last successful change was an install with a status other than
\* available, and every one whose last successful change was an uninstall
\* with status available.
C17_ReconcileReflects ==
    IsList =>
        \A i \in Range(res.catalog) :
            /\ StatusesOf(i) # {}
            /\ lastChange[i] = "installed" => "available" \notin StatusesOf(i)
            /\ lastChange[i] = "uninstalled" => StatusesOf(i) = {"available"}

\* C17 (amended): the same, where the uninstall half speaks of the
\* identifiers that are not shipped as built-in plugins.
C17_ReconcileReflectsNotBuiltin ==
    IsList =>
        \A i \in Range(res.catalog) :
            /\ StatusesOf(i) # {}
            /\ lastChange[i] = "installed" => "available" \notin StatusesOf(i)
            /\ (lastChange[i] = "uninstalled" /\ i \notin BuiltinIds) =>
                   StatusesOf(i) = {"available"}

\* One identifier uninstalled after an install, another installed and then
\* disabled.
C17_Witness ==
    /\ IsList
    /\ res.catalog = <<"a", "b">>
    /\ lastChange["a"] = "uninstalled"
    /\ StatusesOf("a") = {"available"}
    /\ lastChange["b"] = "installed"
    /\ lastToggle["b"] = "off"
    /\ StatusesOf("b") = {"inactive"}

(***************************************************************************)
(* The frame of an acquisition, checked under Spec.                        *)
(***************************************************************************)
\* A step that ends in the response of an acquisition.
InstallStep == res'.op = "install" /\ res'.code = 200

\* C18: an acquisition of X, full or sparse, successful or not, leaves the
\* directory of every other identifier under usr/plugins as it was, the
\* one named X_tmp_clone included.
C18_AcquireFrame ==
    [][InstallStep => \A n \in Names \ {res'.id} : usr'[n] = usr[n]]_vars

\* The full strategy, and a sparse acquisition of X while no directory
\* X_tmp_clone exists, do keep to the directory of X.
C18_AcquireFrameNoStagingClash ==
    [][(InstallStep /\ (res'.strategy = "full" \/ ~PathExists(usr, TmpDirOf(res'.id)))) =>
          \A n \in Names \ {res'.id} : usr'[n] = usr[n]]_vars

(***************************************************************************)
(* The frame of a toggle, checked under SpecMarket.                        *)
(***************************************************************************)
\* A step that ends in the response of a toggle that was carried out.
ToggleStep == res'.op = "toggle" /\ res'.ok

\* What an install and an uninstall of i would answer in the file system
\* fs: already installed or not, removed or not.
InstallRejected(fs, i) == AlreadyInstalled(fs, i)
UninstallSucceeds(fs, hs, i) == remove_plugin(fs, hs, i).ok

\* C19: a toggle changes no identifier's answer to a later install
\* (AlreadyInstalled or not) or uninstall (NotInstalled or success), built-in
\* plugins without a user copy included; and an uninstall succeeds only for
\* an identifier whose directory a successful install put there.
C19_ToggleKeepsInstalledSet ==
    [][/\ ToggleStep =>
            \A i \in Ids :
                /\ InstallRejected(usr', i) <=> InstallRejected(usr, i)
                /\ UninstallSucceeds(usr', host', i) <=> UninstallSucceeds(usr, host, i)
       /\ (res'.op = "uninstall" /\ res'.ok /\ res'.id \in Ids) =>
              lastChange[res'.id] = "installed"]_vars

\* A toggle of a plugin that has its directory under usr/plugins changes
\* markers only.
C19_ToggleOfUserCopy ==
    [][(ToggleStep /\ PathExists(usr, res'.id)) =>
          \A i \in Ids :
              /\ InstallRejected(usr', i) <=> InstallRejected(usr, i)
              /\ UninstallSucceeds(usr', host', i) <=> UninstallSucceeds(usr, host, i)]_vars

====
